---- MODULE Spec2Model ----
(***************************************************************************)
(* Loved Homes backend: the checklist tree of a property document.         *)
(*                                                                         *)
(* The store (MongoDB collection "property") is shared by the workers that *)
(* serve requests.  A handler of main.py touches the store at most twice:  *)
(* find_one at its start and update_one at its end; everything between the *)
(* two is computation on the handler's private copy of the document.  A    *)
(* request is therefore the step that validates, loads and edits the       *)
(* private copy (or fails), the step that stores, and the response.        *)
(*                                                                         *)
(* Spec is one server process (uvicorn.run, line 256): the handlers are    *)
(* async def without an await, so the event loop runs one request at a     *)
(* time.  SpecRace is the same handlers served by two processes that share *)
(* the store; their steps interleave at the store operations.              *)
(*                                                                         *)
(* Left out: list_properties and update_property (name and photo_url only, *)
(* they never touch a checklist), the / and /test routes, and path strings *)
(* with a non-numeric field (int() raises, a server error before any store *)
(* access).  An update without a body behaves as one whose title and kind  *)
(* are both None (line 217) and is drawn as such.                          *)
(***************************************************************************)
EXTENDS Integers, Sequences, FiniteSets, TLC

(* ------------------------------ bounds --------------------------------- *)
MaxIds == 3        \* uuid4 values handed out (nodes ever created) under Spec
MaxRaceIds == 2    \* the same under SpecRace
MaxPathLen == 2    \* longest path a client sends
MaxIndex == 1      \* largest index a client sends (the smallest is -1)

Workers == {"w1", "w2"}
Oids == {"a1"}                       \* well-formed ObjectId strings
PropIds == Oids \cup {"zz"}          \* "zz" is no ObjectId
Titles == {"Inspect roof", "Check shingles"}
None == "<None>"                     \* Python's None for Optional[str]
ClientKinds == {"item", "folder", "task"}
Indices == (0 - 1)..MaxIndex
Paths == UNION {[1..n -> Indices] : n \in 0..MaxPathLen}

(* ------------------------------ nodes ---------------------------------- *)
\* A node is a dict with keys id, title, kind and, possibly, children.
Leaf(id, title, kind) == [id |-> id, title |-> title, kind |-> kind]
WithChildren(n, ch) ==
  [id |-> n.id, title |-> n.title, kind |-> n.kind, children |-> ch]
HasChildren(n) == "children" \in DOMAIN n
NoNode == [id |-> 0]

\* parent.get("children", []) or []
ChildrenOrEmpty(n) == IF HasChildren(n) THEN n.children ELSE <<>>

\* 0-based list indexing of Python on a TLA+ sequence
At(list, idx) == list[idx + 1]
\* pop that always takes the first element
Pop_First(list, idx) == Tail(list)
Pop(list, idx) == SubSeq(list, 1, idx) \o SubSeq(list, idx + 2, Len(list))
SetAt(list, idx, n) == [list EXCEPT ![idx + 1] = n]

(* --------------------------- parse_path -------------------------------- *)
\* The path parameter is absent, a list of integers, or a string.  A string
\* is modelled by its comma-separated fields, each blank or an integer.
Blank == [blank |-> TRUE, val |-> 0]
Field(i) == [blank |-> FALSE, val |-> i]
Fields == {Blank, Field(0)}
PathParam(tag, ints, fields) == [tag |-> tag, ints |-> ints, fields |-> fields]
PathParams ==
  {PathParam("none", <<>>, <<>>)}
    \cup {PathParam("list", p, <<>>) : p \in Paths}
    \cup {PathParam("str", <<>>, s) :
            s \in UNION {[1..n -> Fields] : n \in 0..MaxPathLen}}

RECURSIVE NonBlank(_)
NonBlank(fs) ==
  IF fs = <<>> THEN <<>>
  ELSE IF Head(fs).blank THEN NonBlank(Tail(fs))
       ELSE <<Head(fs).val>> \o NonBlank(Tail(fs))

parse_path(path_param) ==
  IF path_param.tag = "none" THEN <<>>
  ELSE IF path_param.tag = "list" THEN path_param.ints
  ELSE NonBlank(path_param.fields)

(* ------------------------- get_node_by_path ---------------------------- *)
\* The loop of get_node_by_path, from node_list with the indices of path
\* still to walk.  at is the path walked so far: the handlers mutate parent
\* and node_list in place, so the result names where they live in the tree.
\* The loop without its idx < 0 test: a negative index counts from the end,
\* as Python's list indexing does.
RECURSIVE Walk_NegativeWraps(_, _, _, _)
Walk_NegativeWraps(node_list, parent, path, at) ==
  IF path = <<>>
    THEN [ok |-> TRUE, parent |-> parent, node_list |-> node_list, at |-> at]
  ELSE IF Head(path) >= Len(node_list) \/ Head(path) + Len(node_list) < 0
    THEN [ok |-> FALSE, parent |-> NoNode, node_list |-> <<>>, at |-> at]
  ELSE LET idx == IF Head(path) < 0 THEN Head(path) + Len(node_list) ELSE Head(path)
       IN Walk_NegativeWraps(ChildrenOrEmpty(At(node_list, idx)),
                             At(node_list, idx), Tail(path), Append(at, idx))

RECURSIVE Walk(_, _, _, _)
Walk(node_list, parent, path, at) ==
  IF path = <<>>
    THEN [ok |-> TRUE, parent |-> parent, node_list |-> node_list, at |-> at]
  ELSE IF Head(path) < 0 \/ Head(path) >= Len(node_list)
    THEN [ok |-> FALSE, parent |-> NoNode, node_list |-> <<>>, at |-> at]
  ELSE Walk(ChildrenOrEmpty(At(node_list, Head(path))),
            At(node_list, Head(path)), Tail(path), Append(at, Head(path)))

get_node_by_path(checklist, path) == Walk(checklist, NoNode, path, <<>>)

\* The tree with the node at the non-empty path replaced by n: the effect
\* on checklist of mutating, in place, the dict that path leads to.
RECURSIVE Store(_, _, _)
Store(list, path, n) ==
  IF Len(path) = 1 THEN SetAt(list, Head(path), n)
  ELSE SetAt(list, Head(path),
             WithChildren(At(list, Head(path)),
                          Store(At(list, Head(path)).children, Tail(path), n)))

(* ----------------------------- the store ------------------------------ *)
NoDoc == [_id |-> "none"]
NewDoc(oid) == [_id |-> oid, checklist |-> <<>>]

\* ObjectId(prop_id) raises unless prop_id is a well-formed ObjectId string.
WellFormed(prop_id) == prop_id \in Oids

\* db["property"].find_one({"_id": oid})
find_one(store, oid) == store[oid]

\* an update that keeps the stored root nodes the written tree does not hold
update_one_Merge(store, oid, c) ==
  IF store[oid] = NoDoc THEN store
  ELSE [store EXCEPT ![oid] =
          [_id |-> oid,
           checklist |-> c \o SelectSeq(store[oid].checklist,
                                        LAMBDA n : n.id \notin {c[k].id : k \in 1..Len(c)})]]

\* db["property"].update_one({"_id": oid}, {"$set": {"checklist": c}})
update_one(store, oid, c) ==
  IF store[oid] = NoDoc THEN store
  ELSE [store EXCEPT ![oid] = [_id |-> oid, checklist |-> c]]

\* db["property"].delete_one({"_id": oid})
delete_one(store, oid) == [store EXCEPT ![oid] = NoDoc]

get_property_or_404(store, prop_id) ==
  IF ~WellFormed(prop_id)
    THEN [status |-> "InvalidIdentifier", doc |-> NoDoc, reads |-> 0]
  ELSE IF find_one(store, prop_id) = NoDoc
    THEN [status |-> "PropertyNotFound", doc |-> NoDoc, reads |-> 1]
  ELSE [status |-> "ok", doc |-> find_one(store, prop_id), reads |-> 1]

to_public(doc) == [id |-> doc._id, checklist |-> doc.checklist]

(* --------------------- the edits of the handlers ----------------------- *)
\* Each takes the loaded checklist and gives the handler's outcome: the
\* status, the checklist as the handler leaves it and the node it returns.
Edit(status, checklist, node) ==
  [status |-> status, checklist |-> checklist, node |-> node]

\* new_node with the client's kind kept as it came, without line 184's choice
new_node_Uncoerced(id, title, kind) ==
  IF kind = "folder" THEN WithChildren(Leaf(id, title, "folder"), <<>>)
  ELSE Leaf(id, title, kind)

new_node(id, title, kind) ==
  IF kind = "folder" THEN WithChildren(Leaf(id, title, "folder"), <<>>)
  ELSE IF kind = "item" THEN Leaf(id, title, "item")
  ELSE Leaf(id, title, "item")

\* add_edit with insert(0, new_node) in place of append(new_node)
add_edit_Prepend(checklist, parent_path, id, title, kind) ==
  LET r == get_node_by_path(checklist, parent_path)
      n == new_node(id, title, kind)
  IN IF ~r.ok THEN Edit("OutOfRange", checklist, NoNode)
     ELSE IF parent_path # <<>>
       THEN Edit("ok",
                 Store(checklist, r.at,
                       WithChildren(r.parent, <<n>> \o ChildrenOrEmpty(r.parent))),
                 n)
     ELSE Edit("ok", <<n>> \o checklist, n)

\* add_edit with a parent that must already hold children: a parent without
\* the attribute is refused in place of the setdefault of line 192
add_edit_FolderOnly(checklist, parent_path, id, title, kind) ==
  LET r == get_node_by_path(checklist, parent_path)
      n == new_node(id, title, kind)
  IN IF ~r.ok THEN Edit("OutOfRange", checklist, NoNode)
     ELSE IF parent_path # <<>>
       THEN IF ~HasChildren(r.parent) THEN Edit("OutOfRange", checklist, NoNode)
            ELSE Edit("ok",
                      Store(checklist, r.at,
                            WithChildren(r.parent, Append(r.parent.children, n))),
                      n)
     ELSE Edit("ok", Append(checklist, n), n)

add_edit(checklist, parent_path, id, title, kind) ==
  LET r == get_node_by_path(checklist, parent_path)
      n == new_node(id, title, kind)
  IN IF ~r.ok THEN Edit("OutOfRange", checklist, NoNode)
     ELSE IF parent_path # <<>>
       THEN Edit("ok",
                 Store(checklist, r.at,
                       WithChildren(r.parent,
                                    Append(ChildrenOrEmpty(r.parent), n))),
                 n)
     ELSE Edit("ok", Append(checklist, n), n)

\* apply_update without the pop of line 224: a demoted folder keeps children
apply_update_KeepsChildren(node, title, kind) ==
  LET t == IF title # None
             THEN IF HasChildren(node)
                    THEN WithChildren(Leaf(node.id, title, node.kind),
                                      node.children)
                    ELSE Leaf(node.id, title, node.kind)
             ELSE node
  IN IF kind = "folder"
       THEN WithChildren(Leaf(t.id, t.title, "folder"), ChildrenOrEmpty(t))
     ELSE IF kind = "item"
       THEN IF HasChildren(t) THEN WithChildren(Leaf(t.id, t.title, "item"), t.children)
            ELSE Leaf(t.id, t.title, "item")
     ELSE t

\* lines 217-225: the fields of the payload applied to node
apply_update(node, title, kind) ==
  LET t == IF title # None
             THEN IF HasChildren(node)
                    THEN WithChildren(Leaf(node.id, title, node.kind),
                                      node.children)
                    ELSE Leaf(node.id, title, node.kind)
             ELSE node
  IN IF kind = "folder"
       THEN WithChildren(Leaf(t.id, t.title, "folder"), ChildrenOrEmpty(t))
     ELSE IF kind = "item" THEN Leaf(t.id, t.title, "item")
     ELSE t

update_edit(checklist, path_list, title, kind) ==
  LET r == get_node_by_path(checklist, SubSeq(path_list, 1, Len(path_list) - 1))
      idx == path_list[Len(path_list)]
  IN IF ~r.ok THEN Edit("OutOfRange", checklist, NoNode)
     ELSE IF idx < 0 \/ idx >= Len(r.node_list)
       THEN Edit("OutOfRange", checklist, NoNode)
     ELSE LET n == apply_update(At(r.node_list, idx), title, kind)
          IN Edit("ok", Store(checklist, Append(r.at, idx), n), n)

delete_edit(checklist, path_list) ==
  LET r == get_node_by_path(checklist, SubSeq(path_list, 1, Len(path_list) - 1))
      idx == path_list[Len(path_list)]
  IN IF ~r.ok THEN Edit("OutOfRange", checklist, NoNode)
     ELSE IF idx < 0 \/ idx >= Len(r.node_list)
       THEN Edit("OutOfRange", checklist, NoNode)
     ELSE IF r.at = <<>>
       THEN Edit("ok", Pop(checklist, idx), At(r.node_list, idx))
     ELSE Edit("ok",
               Store(checklist, r.at,
                     WithChildren(r.parent, Pop(r.node_list, idx))),
               At(r.node_list, idx))

(* ------------------------------ state ---------------------------------- *)
VARIABLES
  db,         \* the collection: ObjectId -> document, or NoDoc
  issued,     \* the ObjectIds the store has assigned
  nextId,     \* the next uuid4 value
  pc,         \* per worker: "ready", "loaded" (between find_one and update_one), "done"
  req,        \* per worker: the request it serves
  loc,        \* per worker: the handler's checklist and node while loaded
  resp,       \* per worker: the response, once done
  tombstones, \* history: ids of nodes removed by a delete that reported success
  fresh,      \* history: per loaded worker, no store change since its find_one
  scen,       \* history: how far the store has followed the scenario of section 8
  io          \* history: per worker, the store calls of its request so far

vars == <<db, issued, nextId, pc, req, loc, resp, tombstones, fresh, scen, io>>

NoReq == [op |-> "none", prop_id |-> "zz", path |-> <<>>, title |-> None, kind |-> None]
NoLoc == [checklist |-> <<>>, node |-> NoNode]
NoIo == [reads |-> 0, writes |-> 0]
NoResp == [status |-> "none", flag |-> FALSE, node |-> NoNode, tree |-> <<>>]
Request(op, prop_id, path, title, kind) ==
  [op |-> op, prop_id |-> prop_id, path |-> path, title |-> title, kind |-> kind]
Response(status, flag, node, tree) ==
  [status |-> status, flag |-> flag, node |-> node, tree |-> tree]

RECURSIVE IdsOf(_)
IdsOf(list) ==
  IF list = <<>> THEN {}
  ELSE {Head(list).id} \cup IdsOf(ChildrenOrEmpty(Head(list))) \cup IdsOf(Tail(list))

\* The scenario of section 8, step by step.
ScenarioStep(k) ==
  IF k = 1 THEN Request("add", "a1", <<>>, "Inspect roof", "folder")
  ELSE IF k = 2 THEN Request("add", "a1", <<0>>, "Check shingles", "item")
  ELSE IF k = 3 THEN Request("delete", "a1", <<0, 0>>, None, None)
  ELSE Request("update", "a1", <<0>>, None, "item")
Off == 0 - 1

Init ==
  /\ db = [o \in Oids |-> NoDoc]
  /\ issued = {}
  /\ nextId = 1
  /\ pc = [w \in Workers |-> "ready"]
  /\ req = [w \in Workers |-> NoReq]
  /\ loc = [w \in Workers |-> NoLoc]
  /\ resp = [w \in Workers |-> NoResp]
  /\ tombstones = {}
  /\ fresh = [w \in Workers |-> FALSE]
  /\ scen = Off
  /\ io = [w \in Workers |-> NoIo]

\* History: the request of worker w has made so many store calls.
Io(w, reads, writes) ==
  io' = [io EXCEPT ![w] = [reads |-> reads, writes |-> writes]]

\* History kept by a step that changes the store: every loaded copy is old.
Outdate == fresh' = [v \in Workers |-> FALSE]

\* The handler raised or returned: the response is ready.
Done(w, r, rsp) ==
  /\ req' = [req EXCEPT ![w] = r]
  /\ resp' = [resp EXCEPT ![w] = rsp]
  /\ pc' = [pc EXCEPT ![w] = "done"]

\* A request that fails with an HTTPException.
Fail(w, r, status) ==
  /\ Done(w, r, Response(status, FALSE, NoNode, <<>>))
  /\ UNCHANGED <<db, issued, loc, tombstones, fresh, scen>>

\* A request whose edit succeeded on the handler's copy: update_one is next.
Loaded(w, r, e) ==
  /\ req' = [req EXCEPT ![w] = r]
  /\ pc' = [pc EXCEPT ![w] = "loaded"]
  /\ loc' = [loc EXCEPT ![w] = [checklist |-> e.checklist, node |-> e.node]]
  /\ fresh' = [fresh EXCEPT ![w] = TRUE]
  /\ UNCHANGED <<db, issued, resp, tombstones, scen>>

\* POST /api/properties
create_property(w) ==
  /\ pc[w] = "ready"
  /\ \E oid \in Oids \ issued :
       /\ db' = [db EXCEPT ![oid] = NewDoc(oid)]
       /\ issued' = issued \cup {oid}
       /\ Done(w, Request("create", oid, <<>>, None, None),
               Response("ok", TRUE, NoNode, <<>>))
  /\ scen' = 0
  /\ Outdate
  /\ Io(w, 0, 1)
  /\ UNCHANGED <<nextId, loc, tombstones>>

\* DELETE /api/properties/{prop_id}
delete_property(w, prop_id) ==
  /\ pc[w] = "ready"
  /\ IF ~WellFormed(prop_id)
       THEN /\ Done(w, Request("drop", prop_id, <<>>, None, None),
                    Response("InvalidIdentifier", FALSE, NoNode, <<>>))
            /\ Io(w, 0, 0)
            /\ UNCHANGED <<db, fresh, scen>>
       ELSE /\ db' = delete_one(db, prop_id)
            /\ Done(w, Request("drop", prop_id, <<>>, None, None),
                    Response("ok", db[prop_id] # NoDoc, NoNode, <<>>))
            /\ scen' = Off
            /\ Outdate
            /\ Io(w, 0, 1)
  /\ UNCHANGED <<issued, nextId, loc, tombstones>>

\* GET /api/properties/{prop_id}/checklist
get_checklist(w, prop_id) ==
  /\ pc[w] = "ready"
  /\ UNCHANGED nextId
  /\ LET d == get_property_or_404(db, prop_id)
         r == Request("get", prop_id, <<>>, None, None)
     IN IF d.status # "ok" THEN Fail(w, r, d.status) /\ Io(w, d.reads, 0)
        ELSE /\ Done(w, r, Response("ok", TRUE, NoNode, to_public(d.doc).checklist))
             /\ Io(w, d.reads, 0)
             /\ UNCHANGED <<db, issued, loc, tombstones, fresh, scen>>

\* POST /api/properties/{prop_id}/checklist, up to update_one
add_node(w, prop_id, parent_path, title, kind, cap) ==
  /\ pc[w] = "ready"
  /\ LET d == get_property_or_404(db, prop_id)
         r == Request("add", prop_id, parent_path, title, kind)
     IN IF d.status # "ok"
          THEN Fail(w, r, d.status) /\ Io(w, d.reads, 0) /\ UNCHANGED nextId
        ELSE LET e == add_edit(d.doc.checklist, parent_path, nextId, title, kind)
             IN IF e.status # "ok"
                  THEN Fail(w, r, e.status) /\ Io(w, d.reads, 0) /\ UNCHANGED nextId
                ELSE /\ nextId <= cap
                     /\ Io(w, d.reads, 0)
                     /\ nextId' = nextId + 1
                     /\ Loaded(w, r, e)

\* PATCH /api/properties/{prop_id}/checklist, up to update_one
\* update_node with the lookup of line 209 moved before the path check of
\* lines 206-208: a malformed or unknown property id is reported first.
update_node_LookupFirst(w, prop_id, path, title, kind) ==
  /\ pc[w] = "ready"
  /\ UNCHANGED nextId
  /\ LET path_list == parse_path(path)
         r == Request("update", prop_id, path_list, title, kind)
         d == get_property_or_404(db, prop_id)
     IN IF d.status # "ok" THEN Fail(w, r, d.status) /\ Io(w, d.reads, 0)
        ELSE IF path_list = <<>> THEN Fail(w, r, "InvalidPath") /\ Io(w, d.reads, 0)
        ELSE LET e == update_edit(d.doc.checklist, path_list, title, kind)
             IN IF e.status # "ok"
                  THEN Fail(w, r, e.status) /\ Io(w, d.reads, 0)
                ELSE Loaded(w, r, e) /\ Io(w, d.reads, 0)

\* update_node that answers without the update_one of line 228 when the
\* payload holds neither title nor kind
update_node_SkipsEmpty(w, prop_id, path, title, kind) ==
  /\ pc[w] = "ready"
  /\ UNCHANGED nextId
  /\ LET path_list == parse_path(path)
         r == Request("update", prop_id, path_list, title, kind)
     IN IF path_list = <<>> THEN Fail(w, r, "InvalidPath") /\ Io(w, 0, 0)
        ELSE LET d == get_property_or_404(db, prop_id)
             IN IF d.status # "ok" THEN Fail(w, r, d.status) /\ Io(w, d.reads, 0)
                ELSE LET e == update_edit(d.doc.checklist, path_list, title, kind)
                     IN IF e.status # "ok"
                          THEN Fail(w, r, e.status) /\ Io(w, d.reads, 0)
                        ELSE IF title = None /\ kind = None
                          THEN /\ Done(w, r, Response("ok", TRUE, e.node, <<>>))
                               /\ Io(w, d.reads, 0)
                               /\ UNCHANGED <<db, issued, loc, tombstones, fresh, scen>>
                        ELSE Loaded(w, r, e) /\ Io(w, d.reads, 0)

update_node(w, prop_id, path, title, kind) ==
  /\ pc[w] = "ready"
  /\ UNCHANGED nextId
  /\ LET path_list == parse_path(path)
         r == Request("update", prop_id, path_list, title, kind)
     IN IF path_list = <<>> THEN Fail(w, r, "InvalidPath") /\ Io(w, 0, 0)
        ELSE LET d == get_property_or_404(db, prop_id)
             IN IF d.status # "ok" THEN Fail(w, r, d.status) /\ Io(w, d.reads, 0)
                ELSE LET e == update_edit(d.doc.checklist, path_list, title, kind)
                     IN IF e.status # "ok"
                          THEN Fail(w, r, e.status) /\ Io(w, d.reads, 0)
                        ELSE Loaded(w, r, e) /\ Io(w, d.reads, 0)

\* delete_node with the range check of lines 243-244 moved after the pop and
\* the update_one: pop(-1) takes the last node before the request fails.
delete_node_LateCheck(w, prop_id, path) ==
  /\ pc[w] = "ready"
  /\ UNCHANGED nextId
  /\ LET path_list == parse_path(path)
         r == Request("delete", prop_id, path_list, None, None)
     IN IF path_list = <<>> THEN Fail(w, r, "InvalidPath") /\ Io(w, 0, 0)
        ELSE LET d == get_property_or_404(db, prop_id)
             IN IF d.status # "ok" THEN Fail(w, r, d.status) /\ Io(w, d.reads, 0)
                ELSE LET c == d.doc.checklist
                         front == SubSeq(path_list, 1, Len(path_list) - 1)
                         g == get_node_by_path(c, front)
                         e == delete_edit(c, path_list)
                     IN IF g.ok /\ path_list[Len(path_list)] = 0 - 1 /\ g.node_list # <<>>
                          THEN /\ db' = update_one(db, prop_id,
                                     delete_edit(c, Append(front, Len(g.node_list) - 1)).checklist)
                               /\ Done(w, r, Response("OutOfRange", FALSE, NoNode, <<>>))
                               /\ Io(w, d.reads, 1)
                               /\ UNCHANGED <<issued, loc, tombstones, fresh, scen>>
                        ELSE IF e.status # "ok"
                          THEN Fail(w, r, e.status) /\ Io(w, d.reads, 0)
                        ELSE Loaded(w, r, e) /\ Io(w, d.reads, 0)

\* DELETE /api/properties/{prop_id}/checklist, up to update_one
delete_node(w, prop_id, path) ==
  /\ pc[w] = "ready"
  /\ UNCHANGED nextId
  /\ LET path_list == parse_path(path)
         r == Request("delete", prop_id, path_list, None, None)
     IN IF path_list = <<>> THEN Fail(w, r, "InvalidPath") /\ Io(w, 0, 0)
        ELSE LET d == get_property_or_404(db, prop_id)
             IN IF d.status # "ok" THEN Fail(w, r, d.status) /\ Io(w, d.reads, 0)
                ELSE LET e == delete_edit(d.doc.checklist, path_list)
                     IN IF e.status # "ok"
                          THEN Fail(w, r, e.status) /\ Io(w, d.reads, 0)
                        ELSE Loaded(w, r, e) /\ Io(w, d.reads, 0)

\* lines 197-199, 227-229, 248-250: update_one, then the success response
write_back(w) ==
  /\ pc[w] = "loaded"
  /\ db' = update_one(db, req[w].prop_id, loc[w].checklist)
  /\ resp' = [resp EXCEPT ![w] = Response("ok", TRUE, loc[w].node, <<>>)]
  /\ pc' = [pc EXCEPT ![w] = "done"]
  /\ loc' = [loc EXCEPT ![w] = NoLoc]
  /\ tombstones' = IF req[w].op = "delete"
                     THEN tombstones \cup IdsOf(<<loc[w].node>>) ELSE tombstones
  /\ Outdate
  /\ scen' = IF scen \in 0..3 /\ fresh[w] /\ req[w] = ScenarioStep(scen + 1)
               THEN scen + 1 ELSE Off
  /\ Io(w, io[w].reads, io[w].writes + 1)
  /\ UNCHANGED <<issued, nextId, req>>

\* The response leaves; the worker takes the next request.
respond(w) ==
  /\ pc[w] = "done"
  /\ pc' = [pc EXCEPT ![w] = "ready"]
  /\ req' = [req EXCEPT ![w] = NoReq]
  /\ resp' = [resp EXCEPT ![w] = NoResp]
  /\ Io(w, 0, 0)
  /\ UNCHANGED <<db, issued, nextId, loc, tombstones, fresh, scen>>

\* What worker w may do, for requests drawn from the given sets.
Serve(w, ids, paths, params, titles, kinds, cap) ==
  \/ create_property(w)
  \/ \E prop_id \in ids : delete_property(w, prop_id)
  \/ \E prop_id \in ids : get_checklist(w, prop_id)
  \/ \E prop_id \in ids, parent_path \in paths, title \in titles, kind \in kinds :
       add_node(w, prop_id, parent_path, title, kind, cap)
  \/ \E prop_id \in ids, path \in params, title \in titles \cup {None},
        kind \in kinds \cup {None} :
       update_node(w, prop_id, path, title, kind)
  \/ \E prop_id \in ids, path \in params : delete_node(w, prop_id, path)
  \/ write_back(w)
  \/ respond(w)

Next == Serve("w1", PropIds, Paths, PathParams, Titles, ClientKinds, MaxIds)

Spec == Init /\ [][Next]_vars

\* Two processes; the requests are the well-formed ones that decide a race.
RacePaths == {p \in Paths : \A k \in DOMAIN p : p[k] >= 0}
RaceParams == {PathParam("list", p, <<>>) : p \in RacePaths}
NextRace ==
  \E w \in Workers :
    Serve(w, Oids, RacePaths, RaceParams, {"Check shingles"}, {"item", "folder"},
          MaxRaceIds)

SpecRace == Init /\ [][NextRace]_vars

(* ======================= the claims, C1 onwards ======================== *)
Mutating == {"add", "update", "delete"}
Errors == {"InvalidIdentifier", "PropertyNotFound", "InvalidPath", "OutOfRange"}

\* Worker w takes a request in this step / performs its update_one in this step.
Begins(w) == pc[w] = "ready" /\ pc'[w] # "ready"
Writes(w) == pc[w] = "loaded" /\ pc'[w] = "done"
Stored(oid) == db[oid] # NoDoc
Exists(prop_id) == WellFormed(prop_id) /\ db[prop_id] # NoDoc

\* The node a path leads to and the sibling list a path's node heads, by
\* plain descent (the paths given are in range).
RECURSIVE NodeAt(_, _)
NodeAt(list, path) ==
  IF Len(path) = 1 THEN list[Head(path) + 1]
  ELSE NodeAt(list[Head(path) + 1].children, Tail(path))
ListAt(list, path) ==
  IF path = <<>> THEN list
  ELSE IF HasChildren(NodeAt(list, path)) THEN NodeAt(list, path).children
  ELSE <<>>
Front(path) == SubSeq(path, 1, Len(path) - 1)
Last(path) == path[Len(path)]

RECURSIVE WellShaped(_)
WellShaped(list) ==
  \A k \in 1..Len(list) :
    /\ HasChildren(list[k]) <=> list[k].kind = "folder"
    /\ WellShaped(ChildrenOrEmpty(list[k]))

\* C1: in every stored checklist, every node at every depth has a children
\* attribute if and only if its kind is folder.
C1_ChildrenIffFolder ==
  \A oid \in Oids : Stored(oid) => WellShaped(db[oid].checklist)

\* C2: an add, update or delete that fails with InvalidIdentifier,
\* PropertyNotFound, InvalidPath or OutOfRange leaves the store as it was.
C2_FailureWritesNothing ==
  [][\A w \in Workers :
       (/\ Begins(w)
        /\ pc'[w] = "done"
        /\ req'[w].op \in Mutating
        /\ resp'[w].status \in Errors) => db' = db]_vars

C2_Witness ==
  \E w \in Workers :
    /\ pc[w] = "done"
    /\ req[w].op = "delete"
    /\ resp[w].status = "OutOfRange"
    /\ Stored("a1")
    /\ db["a1"].checklist # <<>>

\* C3: the write of a request replaces the stored checklist by exactly the
\* tree that request holds, whatever was stored since it loaded: the node
\* another request added and reported, if that tree lacks it, is not stored.
C3_LastWriterWins ==
  [][\A w \in Workers :
       (Writes(w) /\ Exists(req[w].prop_id)) =>
         /\ db'[req[w].prop_id].checklist = loc[w].checklist
         /\ resp'[w].status = "ok" /\ resp'[w].flag
         /\ \A v \in Workers \ {w} :
              (/\ pc[v] = "done" /\ req[v].op = "add" /\ resp[v].status = "ok"
               /\ resp[v].node.id \notin IdsOf(loc[w].checklist))
                => resp[v].node.id \notin IdsOf(db'[req[w].prop_id].checklist)]_vars

\* Two adds at the root both reported success, nothing was ever deleted, and
\* the store holds the second writer's node but not the first writer's.
C3_Witness ==
  \E v, w \in Workers :
    /\ v # w /\ pc[v] = "done" /\ pc[w] = "done"
    /\ req[v].op = "add" /\ req[w].op = "add"
    /\ req[v].path = <<>> /\ req[w].path = <<>>
    /\ resp[v].status = "ok" /\ resp[v].flag
    /\ resp[w].status = "ok" /\ resp[w].flag
    /\ tombstones = {} /\ Stored("a1")
    /\ resp[v].node.id \notin IdsOf(db["a1"].checklist)
    /\ resp[w].node.id \in IdsOf(db["a1"].checklist)

\* What delete does to the tree it loaded: the node at p is the one removed,
\* the list that held it is shorter by 1, and exactly its subtree is gone.
DeleteTakesOne(w) ==
  (Begins(w) /\ pc'[w] = "loaded" /\ req'[w].op = "delete") =>
    LET T == db[req'[w].prop_id].checklist
        T2 == loc'[w].checklist
        p == req'[w].path
    IN /\ loc'[w].node = NodeAt(T, p)
       /\ Len(ListAt(T2, Front(p))) = Len(ListAt(T, Front(p))) - 1
       /\ \A k \in 1..Len(ListAt(T2, Front(p))) :
            ListAt(T2, Front(p))[k] =
              ListAt(T, Front(p))[IF k <= Last(p) THEN k ELSE k + 1]
       /\ IdsOf(T2) = IdsOf(T) \ IdsOf(<<NodeAt(T, p)>>)
DeleteStores(w) ==
  (Writes(w) /\ req[w].op = "delete" /\ Exists(req[w].prop_id)) =>
    /\ db'[req[w].prop_id].checklist = loc[w].checklist
    /\ IdsOf(db'[req[w].prop_id].checklist) \cap IdsOf(<<loc[w].node>>) = {}
    /\ resp'[w].node = loc[w].node

\* C4 as stated: a delete removes exactly the node at p, and no read that
\* comes later returns a node a successful delete removed.
C4_NeverExposedAgain ==
  [][\A w \in Workers :
       /\ DeleteTakesOne(w)
       /\ DeleteStores(w)
       /\ (Begins(w) /\ req'[w].op = "get" /\ resp'[w].status = "ok")
            => IdsOf(resp'[w].tree) \cap tombstones = {}]_vars

\* C4 amended: a delete removes exactly the node at p of the tree it loaded
\* and its write leaves no node of that subtree in the store; a read returns
\* the stored checklist; and a write brings a removed node back into the
\* store only when it is a lost update, the write of a request that loaded
\* before some other change of the store.
C4_ExposedOnlyByLostUpdate ==
  [][\A w \in Workers :
       /\ DeleteTakesOne(w)
       /\ DeleteStores(w)
       /\ (Begins(w) /\ req'[w].op = "get" /\ resp'[w].status = "ok")
            => resp'[w].tree = db[req'[w].prop_id].checklist
       /\ (Writes(w) /\ fresh[w] /\ Exists(req[w].prop_id))
            => (IdsOf(db'[req[w].prop_id].checklist) \cap tombstones')
                 \subseteq IdsOf(db[req[w].prop_id].checklist)
       /\ (~(\E v \in Workers : Writes(v)) /\ Stored("a1") /\ db'["a1"] # NoDoc)
            => IdsOf(db'["a1"].checklist) = IdsOf(db["a1"].checklist)]_vars

\* A delete at a path of length 2 reported success and its node is not stored.
C4_Witness ==
  \E w \in Workers :
    /\ pc[w] = "done" /\ req[w].op = "delete" /\ resp[w].status = "ok"
    /\ Len(req[w].path) = 2
    /\ resp[w].node.id \in tombstones
    /\ Stored("a1")
    /\ resp[w].node.id \notin IdsOf(db["a1"].checklist)

\* Some index of path is negative or not below the length of the list it
\* indexes, a node without children giving the empty list.
RECURSIVE SomeIndexOutside(_, _)
SomeIndexOutside(list, path) ==
  /\ path # <<>>
  /\ \/ Head(path) < 0
     \/ Head(path) >= Len(list)
     \/ SomeIndexOutside(IF HasChildren(list[Head(path) + 1])
                           THEN list[Head(path) + 1].children ELSE <<>>,
                         Tail(path))

\* C5: on an existing property, add (path to the parent) and update and
\* delete (non-empty path to the node) fail with OutOfRange exactly when some
\* index of the path is outside its list; otherwise the edit is applied.
C5_OutOfRangeIff ==
  [][\A w \in Workers :
       (/\ Begins(w)
        /\ req'[w].op \in Mutating
        /\ Exists(req'[w].prop_id)
        /\ (req'[w].op = "add" \/ req'[w].path # <<>>)) =>
         LET outside == SomeIndexOutside(db[req'[w].prop_id].checklist, req'[w].path)
         IN /\ (pc'[w] = "done" /\ resp'[w].status = "OutOfRange") <=> outside
            /\ ~outside => pc'[w] = "loaded"
            /\ (~outside /\ req'[w].op = "delete") =>
                 loc'[w].node = NodeAt(db[req'[w].prop_id].checklist, req'[w].path)
            /\ (~outside /\ req'[w].op = "update") =>
                 loc'[w].node.id = NodeAt(db[req'[w].prop_id].checklist, req'[w].path).id]_vars

\* An add under <<0, 0>> failed with OutOfRange because root[0] has no children.
C5_Witness ==
  \E w \in Workers :
    /\ pc[w] = "done" /\ req[w].op = "add" /\ resp[w].status = "OutOfRange"
    /\ req[w].path = <<0, 0>>
    /\ Stored("a1") /\ Len(db["a1"].checklist) >= 1
    /\ ~HasChildren(db["a1"].checklist[1])

\* C6: an add with an empty parent path on a stored root list T stores T
\* followed by the new node.
C6_RootAppend ==
  [][\A w \in Workers :
       (Writes(w) /\ req[w].op = "add" /\ req[w].path = <<>> /\ Exists(req[w].prop_id)) =>
         LET T == db[req[w].prop_id].checklist
             T2 == db'[req[w].prop_id].checklist
         IN /\ T2 = T \o <<resp'[w].node>>
            /\ Len(T2) = Len(T) + 1
            /\ T2[Len(T2)].title = req[w].title
            /\ T2[Len(T2)].id \notin IdsOf(T)
            /\ \A k \in 1..Len(T) : T2[k] = T[k]]_vars

\* An add at the root of a list that already held two nodes reported success.
C6_Witness ==
  \E w \in Workers :
    /\ pc[w] = "done" /\ req[w].op = "add" /\ req[w].path = <<>>
    /\ resp[w].status = "ok"
    /\ Stored("a1") /\ Len(db["a1"].checklist) = 3
    /\ db["a1"].checklist[3] = resp[w].node

\* C7: an add whose parent path addresses a folder appends the new node to
\* the folder's children; the list that holds the folder keeps its length
\* and its elements in their order.
C7_AppendUnderFolder ==
  [][\A w \in Workers :
       (/\ Writes(w) /\ req[w].op = "add" /\ req[w].path # <<>>
        /\ Exists(req[w].prop_id)
        /\ NodeAt(db[req[w].prop_id].checklist, req[w].path).kind = "folder") =>
         LET T == db[req[w].prop_id].checklist
             T2 == db'[req[w].prop_id].checklist
             p == req[w].path
             f == NodeAt(T, p)
             f2 == NodeAt(T2, p)
             S == ListAt(T, Front(p))
             S2 == ListAt(T2, Front(p))
         IN /\ HasChildren(f) /\ HasChildren(f2)
            /\ Len(f2.children) = Len(f.children) + 1
            /\ f2.children[Len(f2.children)] = resp'[w].node
            /\ \A k \in 1..Len(f.children) : f2.children[k] = f.children[k]
            /\ Len(S2) = Len(S)
            /\ \A k \in 1..Len(S) :
                 /\ S2[k].id = S[k].id /\ S2[k].title = S[k].title
                 /\ S2[k].kind = S[k].kind
                 /\ k # Last(p) + 1 => S2[k] = S[k]]_vars

\* An add under the root folder that already had a child reported success.
C7_Witness ==
  \E w \in Workers :
    /\ pc[w] = "done" /\ req[w].op = "add" /\ req[w].path = <<0>>
    /\ resp[w].status = "ok"
    /\ Stored("a1") /\ Len(db["a1"].checklist) = 1
    /\ db["a1"].checklist[1].kind = "folder"
    /\ Len(db["a1"].checklist[1].children) = 2
    /\ db["a1"].checklist[1].children[2] = resp[w].node

\* C8: an update to kind folder on an item leaves it with children == [], an
\* update to kind item on a folder leaves it without children, and the same
\* update applied again changes nothing.
C8_KindUpdate ==
  [][\A w \in Workers :
       (Writes(w) /\ req[w].op = "update" /\ Exists(req[w].prop_id)) =>
         LET T == db[req[w].prop_id].checklist
             T2 == db'[req[w].prop_id].checklist
             n == NodeAt(T, req[w].path)
             n2 == NodeAt(T2, req[w].path)
         IN /\ (req[w].kind = "folder" /\ n.kind = "item")
                 => (HasChildren(n2) /\ n2.children = <<>>)
            /\ (req[w].kind = "item" /\ n.kind = "folder") => ~HasChildren(n2)
            /\ req[w].kind \in {"item", "folder"}
                 => update_edit(T2, req[w].path, req[w].title, req[w].kind).checklist = T2]_vars

\* C9: after a successful add, a get of the same property returns a tree
\* whose node at the fresh path is the node of add's response.
C9_RoundTrip ==
  \A w \in Workers :
    (pc[w] = "done" /\ req[w].op = "add" /\ resp[w].status = "ok") =>
      LET got == get_property_or_404(db, req[w].prop_id)
          tree == to_public(got.doc).checklist
          last == Len(ListAt(tree, req[w].path)) - 1
          n == NodeAt(tree, Append(req[w].path, last))
      IN /\ got.status = "ok"
         /\ n.id = resp[w].node.id
         /\ n.title = resp[w].node.title /\ n.title = req[w].title
         /\ n.kind = resp[w].node.kind
         /\ HasChildren(n) <=> HasChildren(resp[w].node)
         /\ ChildrenOrEmpty(n) = ChildrenOrEmpty(resp[w].node)

\* An add of a folder under a node that already had a child reported success.
C9_Witness ==
  \E w \in Workers :
    /\ pc[w] = "done" /\ req[w].op = "add" /\ resp[w].status = "ok"
    /\ req[w].path = <<0>> /\ req[w].kind = "folder"
    /\ Stored("a1")
    /\ Len(ListAt(db["a1"].checklist, <<0>>)) = 2

\* C10: from the empty checklist the four requests of the scenario succeed
\* and leave, in turn, a single root folder with children == []; that folder
\* holding exactly the item "Check shingles", which has no children; the
\* folder with children == [] again; and root[0] of kind item, no children.
C10_Scenario ==
  LET c == db["a1"].checklist
  IN /\ \A w \in Workers, k \in 1..4 :
          \* step k taken after step k - 1 did not fail: its update_one is next
          (pc[w] # "ready" /\ req[w] = ScenarioStep(k) /\ scen = k - 1)
            => pc[w] = "loaded"
     /\ scen \in 0..4 => Stored("a1")
     /\ scen = 0 => c = <<>>
     /\ scen = 1 =>
          /\ Len(c) = 1 /\ c[1].title = "Inspect roof" /\ c[1].kind = "folder"
          /\ HasChildren(c[1]) /\ c[1].children = <<>>
     /\ scen = 2 =>
          /\ Len(c) = 1 /\ c[1].title = "Inspect roof" /\ c[1].kind = "folder"
          /\ HasChildren(c[1]) /\ Len(c[1].children) = 1
          /\ c[1].children[1].title = "Check shingles"
          /\ c[1].children[1].kind = "item"
          /\ ~HasChildren(c[1].children[1])
     /\ scen = 3 =>
          /\ Len(c) = 1 /\ c[1].title = "Inspect roof" /\ c[1].kind = "folder"
          /\ HasChildren(c[1]) /\ c[1].children = <<>>
     /\ scen = 4 =>
          /\ Len(c) = 1 /\ c[1].title = "Inspect roof" /\ c[1].kind = "item"
          /\ ~HasChildren(c[1])

\* The fourth request of the scenario has been answered.
C10_Witness ==
  \E w \in Workers :
    scen = 4 /\ pc[w] = "done" /\ req[w] = ScenarioStep(4) /\ resp[w].status = "ok"

\* C11: an update or delete whose path is empty or absent fails with
\* InvalidPath before the property is looked up: the outcome is InvalidPath
\* whatever the property id is, and the store is neither read nor written.
C11_EmptyPathFirst ==
  [][\A w \in Workers :
       (/\ Begins(w)
        /\ req'[w].op \in {"update", "delete"}
        /\ req'[w].path = <<>>) =>
         /\ pc'[w] = "done"
         /\ resp'[w].status = "InvalidPath"
         /\ ~resp'[w].flag
         /\ io'[w] = NoIo
         /\ db' = db]_vars

\* An update with no path for a malformed property id was answered InvalidPath.
C11_Witness ==
  \E w \in Workers :
    /\ pc[w] = "done"
    /\ req[w].op = "update"
    /\ req[w].path = <<>>
    /\ ~WellFormed(req[w].prop_id)
    /\ resp[w].status = "InvalidPath"
    /\ io[w] = NoIo

\* C12: an add whose non-empty parent path leads to an existing node that
\* has no children attribute does not fail: the node gets a children list
\* whose only member is the new node, and that tree is what is stored.
C12_AddUnderChildless ==
  [][\A w \in Workers :
       /\ (/\ Begins(w)
           /\ req'[w].op = "add"
           /\ req'[w].path # <<>>
           /\ Exists(req'[w].prop_id)
           /\ ~SomeIndexOutside(db[req'[w].prop_id].checklist, req'[w].path)
           /\ ~HasChildren(NodeAt(db[req'[w].prop_id].checklist, req'[w].path))) =>
            /\ pc'[w] = "loaded"
            /\ HasChildren(NodeAt(loc'[w].checklist, req'[w].path))
            /\ NodeAt(loc'[w].checklist, req'[w].path).children = <<loc'[w].node>>
            /\ loc'[w].node.id \notin IdsOf(db[req'[w].prop_id].checklist)
       /\ (/\ Writes(w)
           /\ req[w].op = "add"
           /\ req[w].path # <<>>
           /\ Exists(req[w].prop_id)
           /\ ~SomeIndexOutside(db[req[w].prop_id].checklist, req[w].path)
           /\ ~HasChildren(NodeAt(db[req[w].prop_id].checklist, req[w].path))) =>
            /\ resp'[w].status = "ok" /\ resp'[w].flag
            /\ db'[req[w].prop_id].checklist = loc[w].checklist
            /\ NodeAt(db'[req[w].prop_id].checklist, req[w].path).children
                 = <<resp'[w].node>>]_vars

\* An add under <<0>> succeeded and the stored root[0], of kind item, holds
\* the new node as its only child.
C12_Witness ==
  \E w \in Workers :
    /\ pc[w] = "done" /\ req[w].op = "add" /\ resp[w].status = "ok"
    /\ req[w].path = <<0>>
    /\ Stored("a1")
    /\ Len(db["a1"].checklist) >= 1
    /\ db["a1"].checklist[1].kind = "item"
    /\ HasChildren(db["a1"].checklist[1])
    /\ db["a1"].checklist[1].children = <<resp[w].node>>

\* The kinds of the nodes of a tree, at every depth.
RECURSIVE KindsOf(_)
KindsOf(list) ==
  IF list = <<>> THEN {}
  ELSE {Head(list).kind} \cup KindsOf(ChildrenOrEmpty(Head(list)))
         \cup KindsOf(Tail(list))

\* C13: every stored node has kind item or folder whatever kinds clients
\* send: add turns any kind but folder and item into item, and an update
\* whose kind is absent or is neither item nor folder keeps the node's kind
\* and the presence of its children, and still applies a title it is given.
C13_KindsStayValid ==
  [][/\ \A oid \in Oids :
          db'[oid] # NoDoc => KindsOf(db'[oid].checklist) \subseteq {"item", "folder"}
     /\ \A w \in Workers :
          /\ (Begins(w) /\ pc'[w] = "loaded" /\ req'[w].op = "add") =>
               /\ loc'[w].node.kind =
                    (IF req'[w].kind = "folder" THEN "folder" ELSE "item")
               /\ loc'[w].node.title = req'[w].title
               /\ KindsOf(loc'[w].checklist) \subseteq {"item", "folder"}
          /\ (/\ Begins(w) /\ pc'[w] = "loaded" /\ req'[w].op = "update"
              /\ req'[w].kind \notin {"item", "folder"}) =>
               LET old == NodeAt(db[req'[w].prop_id].checklist, req'[w].path)
                   new == NodeAt(loc'[w].checklist, req'[w].path)
               IN /\ new = loc'[w].node
                  /\ new.kind = old.kind
                  /\ HasChildren(new) <=> HasChildren(old)
                  /\ HasChildren(old) => new.children = old.children
                  /\ new.title = (IF req'[w].title # None
                                    THEN req'[w].title ELSE old.title)
                  /\ KindsOf(loc'[w].checklist) \subseteq {"item", "folder"}]_vars

\* An update with kind "task" and a title was stored: the folder at root[0]
\* that holds a child is still a folder with that child and bears the title.
C13_Witness ==
  \E w \in Workers :
    /\ pc[w] = "done" /\ req[w].op = "update" /\ resp[w].status = "ok"
    /\ req[w].kind = "task" /\ req[w].title = "Check shingles"
    /\ req[w].path = <<0>>
    /\ Stored("a1")
    /\ Len(db["a1"].checklist) >= 1
    /\ db["a1"].checklist[1] = resp[w].node
    /\ resp[w].node.kind = "folder"
    /\ resp[w].node.title = "Check shingles"
    /\ resp[w].node.children # <<>>

\* Every node of a tree as the path that leads to it with its id, title and
\* kind (NodeFacts), and with the presence of its children too (NodeFields).
RECURSIVE NodeFields(_, _)
NodeFields(list, pre) ==
  UNION {{[path |-> Append(pre, k - 1), id |-> list[k].id,
           title |-> list[k].title, kind |-> list[k].kind,
           has |-> HasChildren(list[k])]}
           \cup NodeFields(ChildrenOrEmpty(list[k]), Append(pre, k - 1))
         : k \in 1..Len(list)}
FactOf(f) == [path |-> f.path, id |-> f.id, title |-> f.title, kind |-> f.kind]
NodeFacts(list) == {FactOf(f) : f \in NodeFields(list, <<>>)}
IsPrefix(p, q) == Len(p) <= Len(q) /\ SubSeq(q, 1, Len(p)) = p

\* Where the node at path q sits once the node at path p is deleted: a later
\* sibling of p, and all below it, moves one index down at p's depth.
ShiftDown(p, q) ==
  IF /\ IsPrefix(Front(p), q) /\ Len(q) >= Len(p) /\ q[Len(p)] > Last(p)
    THEN [q EXCEPT ![Len(p)] = @ - 1]
  ELSE q

\* C14: a successful add, update or delete changes only its target. Update
\* keeps the id of its node and every field of every other node (the nodes
\* below its node stay as they are, or go with the children an update to
\* item discards); add and delete keep the id, title and kind of every
\* surviving node; every surviving node keeps its place among its siblings,
\* those after a deleted node one index lower; and that tree is stored.
C14_OnlyTheTarget ==
  [][\A w \in Workers :
       /\ (Begins(w) /\ pc'[w] = "loaded" /\ req'[w].op = "update") =>
            LET T == db[req'[w].prop_id].checklist
                T2 == loc'[w].checklist
                p == req'[w].path
                Out(t) == {f \in NodeFields(t, <<>>) : ~IsPrefix(p, f.path)}
                Below(t) == {f \in NodeFields(t, <<>>) :
                               IsPrefix(p, f.path) /\ f.path # p}
            IN /\ NodeAt(T2, p).id = NodeAt(T, p).id
               /\ Out(T2) = Out(T)
               /\ Below(T2) = (IF req'[w].kind = "item" THEN {} ELSE Below(T))
       /\ (Begins(w) /\ pc'[w] = "loaded" /\ req'[w].op = "add") =>
            LET T == db[req'[w].prop_id].checklist
                T2 == loc'[w].checklist
                p == req'[w].path
                n == loc'[w].node
            IN NodeFacts(T2) = NodeFacts(T) \cup
                 {[path |-> Append(p, Len(ListAt(T, p))), id |-> n.id,
                   title |-> n.title, kind |-> n.kind]}
       /\ (Begins(w) /\ pc'[w] = "loaded" /\ req'[w].op = "delete") =>
            LET T == db[req'[w].prop_id].checklist
                T2 == loc'[w].checklist
                p == req'[w].path
            IN NodeFacts(T2) =
                 {[f EXCEPT !.path = ShiftDown(p, f.path)] :
                    f \in {g \in NodeFacts(T) : ~IsPrefix(p, g.path)}}
       /\ (Writes(w) /\ Exists(req[w].prop_id)) =>
            /\ db'[req[w].prop_id].checklist = loc[w].checklist
            /\ \A oid \in Oids \ {req[w].prop_id} : db'[oid] = db[oid]]_vars

\* A delete at <<0>> succeeded and the sibling that followed the deleted
\* node is now root[0], with the child it holds.
C14_Witness ==
  \E w \in Workers :
    /\ pc[w] = "done" /\ req[w].op = "delete" /\ resp[w].status = "ok"
    /\ req[w].path = <<0>>
    /\ Stored("a1")
    /\ Len(db["a1"].checklist) = 1
    /\ resp[w].node.id < db["a1"].checklist[1].id
    /\ HasChildren(db["a1"].checklist[1])
    /\ db["a1"].checklist[1].children # <<>>

OneRead == [reads |-> 1, writes |-> 0]
OneReadOneWrite == [reads |-> 1, writes |-> 1]

\* C15: every successful add, update or delete makes exactly one find_one of
\* the property and then exactly one update_one, which puts in the checklist
\* field the tree that request loaded with its edit applied; an update with
\* neither title nor kind does so too, writing the tree as loaded. A get
\* that is answered makes exactly one find_one and no write.
C15_OneReadOneWrite ==
  [][\A w \in Workers :
       /\ (Begins(w) /\ req'[w].op \in Mutating) =>
            \/ pc'[w] = "loaded" /\ io'[w] = OneRead /\ db' = db
            \/ pc'[w] = "done" /\ resp'[w].status \in Errors
       /\ (/\ Begins(w) /\ pc'[w] = "loaded" /\ req'[w].op = "update"
           /\ req'[w].title = None /\ req'[w].kind = None) =>
            loc'[w].checklist = db[req'[w].prop_id].checklist
       /\ (pc[w] = "loaded" /\ pc'[w] # "loaded") =>
            /\ Writes(w)
            /\ io[w] = OneRead /\ io'[w] = OneReadOneWrite
            /\ resp'[w].status = "ok"
            /\ Exists(req[w].prop_id) =>
                 db' = [db EXCEPT ![req[w].prop_id].checklist = loc[w].checklist]
       /\ (/\ pc'[w] = "done" /\ pc[w] # "done"
           /\ req'[w].op \in Mutating /\ resp'[w].status = "ok") =>
            Writes(w) /\ io'[w] = OneReadOneWrite
       /\ (Begins(w) /\ req'[w].op = "get" /\ WellFormed(req'[w].prop_id)) =>
            pc'[w] = "done" /\ io'[w] = OneRead /\ db' = db
       /\ (Begins(w) /\ req'[w].op = "get" /\ resp'[w].status = "ok") =>
            io'[w] = OneRead /\ db' = db]_vars

\* An update that supplied neither title nor kind succeeded after one read
\* and one write.
C15_Witness ==
  \E w \in Workers :
    /\ pc[w] = "done" /\ req[w].op = "update" /\ resp[w].status = "ok"
    /\ req[w].title = None /\ req[w].kind = None
    /\ io[w] = OneReadOneWrite

\* C16: whenever an add, update or delete answers with its flag (added,
\* updated, deleted) true, its update_one matched an existing property
\* document and the stored checklist then holds its edit, also when another
\* request deleted the property between this request's load and its write.
C16_FlagMeansStored ==
  [][\A w \in Workers :
       (Writes(w) /\ req[w].op \in Mutating /\ resp'[w].flag) =>
         /\ db[req[w].prop_id] # NoDoc
         /\ db'[req[w].prop_id] # NoDoc
         /\ db'[req[w].prop_id].checklist = loc[w].checklist]_vars
====
